---- MODULE Spec2Model ----
(***************************************************************************)
(* Model of the AMT-8000 poll/command coordinator                          *)
(* (custom_components/amt8000/coordinator.py) on top of the ISEC2 session  *)
(* client (custom_components/amt8000/isec2/client.py).                     *)
(*                                                                         *)
(* The coordinator's coroutines run on one asyncio event loop.  A          *)
(* coroutine runs without interruption from one await to the next; the     *)
(* socket calls of the client (connect, auth, status, commands, close) are *)
(* blocking calls made on the loop thread, so they are not suspension      *)
(* points.  `running` names the coroutine that currently occupies the loop *)
(* between two of its steps; another coroutine can only take a step when   *)
(* `running` is None.  Only the force-close job of async_cleanup runs on   *)
(* an executor thread and is therefore not subject to `running`.           *)
(***************************************************************************)
EXTENDS Integers, Sequences, FiniteSets, TLC

\* ---------------------------------------------------------------- bounds
NTasks      == 2      \* concurrent poll_once / execute_command callers
MaxAttempt  == 6      \* cap on the coordinator's attempt counter
MaxVersion  == 2      \* panel states (snapshot versions) explored
MaxCleanups == 1      \* async_cleanup calls explored
MaxPwLen    == 7      \* longest password given to auth
MaxBufLen   == 3      \* longest buffer given to calculate_checksum
LenSlack    == 2      \* status responses up to this far from the right length
MaxSockets  == 3      \* sockets one Client object creates
FairMaxAttempt == 2   \* cap on the attempt counter under fair scheduling

\* ------------------------------------------------------------- constants
max_retries == 2      \* coordinator.py:222
BackoffCap  == 60     \* coordinator.py:195
PayloadLength == 143  \* client.py:45
ZoneCount     == 61   \* client.py:62
PartitionCount == 5   \* client.py:117
HeaderLength  == 8    \* client.py:43
RecvSize      == 1024 \* client.py:292
device_type      == 1  \* client.py:188
software_version == 16 \* client.py:188

\* client.py:9-16
dst_id == <<0, 0>>
our_id == <<143, 255>>
commands ==
    [auth |-> <<240, 240>>, status |-> <<11, 74>>, arm_disarm |-> <<64, 30>>,
     panic |-> <<64, 26>>]

None  == 0            \* Python None (no snapshot, no holder, no task)
Dead  == 0 - 1        \* a client object its coroutine has already dropped
NoLock == 0 - 1       \* the coroutine has not reached the gate
Tasks == 1 .. NTasks
Locks == 0 .. MaxCleanups   \* identities of the asyncio.Lock objects created

\* datetime.now(), in seconds.  Timestamps are kept relative to the present
\* instant: when time passes, the stored timestamp (next_update) moves towards
\* the past instead of the clock moving forward.
now == 0

VARIABLES
    panel,               \* version of the panel's state; a status reply decodes to it
    \* ---- AmtCoordinator fields
    next_update, stored_status, attempt, connection_failed,
    cleanup_in_progress, active,
    \* ---- self._connection_lock: identity of the current lock object, and
    \* ---- for every lock object its holder and FIFO of waiters
    lockId, holder, waiters,
    \* ---- the event loop
    running,
    \* ---- one record of locals per calling coroutine
    pc, op, lk, sock, iter, flow, ret, snap,
    \* ---- async_cleanup's locals
    clpc, toClose, job, cleanups,
    \* ---- history (not program state; used to state the properties)
    everOk, lastGood, lastDelay, cleanedSince, lastContact,
    contactSinceCleanup, refreshReq, answer, lastReturned, hadOpen, authHist,
    \* ---- one call of a function of the ISEC2 client module: the function,
    \* ---- its argument and what it returned or raised
    fn, arg, out,
    \* ---- one Client object (a session): its fields
    session

codecVars == <<fn, arg, out, session>>
envVars   == <<panel, codecVars>>
coordVars == <<next_update, stored_status, attempt, connection_failed,
               cleanup_in_progress, active>>
lockVars  == <<lockId, holder, waiters>>
taskVars  == <<pc, op, lk, sock, iter, flow, ret, snap>>
clVars    == <<clpc, toClose, job, cleanups>>
histVars  == <<everOk, lastGood, lastDelay, cleanedSince,
               lastContact, contactSinceCleanup, refreshReq, answer,
               lastReturned, hadOpen, authHist>>
vars == <<envVars, coordVars, lockVars, running, taskVars, clVars, histVars>>
coordinatorVars == <<panel, coordVars, lockVars, running, taskVars, clVars,
                     histVars>>

Min(a, b) == IF a < b THEN a ELSE b
Max(a, b) == IF a > b THEN a ELSE b

\* ------------------------------------------------------------ the session
\* What the blocking client calls of one attempt can do, as the coordinator
\* sees it.  connect() opens the socket or raises with client = None.  auth()
\* returns True, or raises leaving the socket open (AuthError for result codes
\* 1-4; CommunicationError for a bad password, a short or an unknown reply),
\* or raises from its socket.error handler, which closes the session.
\* status() returns the decoded snapshot, or raises leaving the socket open
\* (build_status failed), or raises from its socket.error handler.  A command
\* returns the tag of an accepted or declined command, or raises from its
\* socket.error handler.
ConnectOutcomes == {"ok", "refused"}
AuthOutcomes    == {"ok", "auth_error", "protocol_error", "socket_error"}
StatusOutcomes  == {"ok", "decode_error", "socket_error"}
CommandOutcomes == {"accepted", "declined", "socket_error"}

\* The calls of one attempt, in order, with the outcome of each; the
\* attempt stops at the first call that raises.
PollTries ==
    {<<c>> : c \in ConnectOutcomes \ {"ok"}}
      \cup {<<"ok", a>> : a \in AuthOutcomes \ {"ok"}}
      \cup {<<"ok", "ok", r>> : r \in StatusOutcomes}
CmdTries ==
    {<<c>> : c \in ConnectOutcomes \ {"ok"}}
      \cup {<<"ok", a>> : a \in AuthOutcomes \ {"ok"}}
      \cup {<<"ok", "ok", r>> : r \in CommandOutcomes}

Last(q) == q[Len(q)]

\* Faulty variant of Raised: an answer other than "accepted" is treated as
\* a failed attempt.
RaisedUnlessAccepted(q) == Last(q) \notin {"ok", "accepted"}

\* The attempt raised.
Raised(q) == Last(q) \notin {"ok", "accepted", "declined"}

\* The session's socket after the attempt: connect() leaves none when it
\* fails, and of the later calls only the socket.error handlers close it.
SockAfter(q) ==
    IF Last(q) \in {"refused", "socket_error"} THEN "closed" ELSE "open"

\* Result tags handed to the collaborator (as integers clear of the
\* snapshot versions, so that `ret` holds either).
Failed   == 100       \* "failed"
Accepted == 101       \* "armed_away" / "disarmed" / "triggered"
Declined == 102       \* "not_armed" / "not_disarmed" / "not_triggered"
CommandResult(outcome) == IF outcome = "accepted" THEN Accepted ELSE Declined

\* The panel's answer to the command of an attempt, if the attempt got one.
PanelAnswer(q) ==
    IF Last(q) \in {"accepted", "declined"} THEN Last(q) ELSE "none"

\* ---------------------------------------------------------- asyncio.Lock
\* Lock.acquire() returns at once, without suspending, when the lock is
\* free and nobody waits for it.
LockFree(l) == holder[l] = None /\ waiters[l] = <<>>

\* Faulty variant of Release: the lock is freed and no waiter is woken.
ReleaseWakesNobody(l) ==
    /\ holder' = [holder EXCEPT ![l] = None]
    /\ UNCHANGED waiters

\* Lock.release() hands the lock to the first waiter, if any.
Release(l) ==
    IF waiters[l] = <<>>
    THEN /\ holder' = [holder EXCEPT ![l] = None]
         /\ UNCHANGED waiters
    ELSE /\ holder' = [holder EXCEPT ![l] = Head(waiters[l])]
         /\ waiters' = [waiters EXCEPT ![l] = Tail(waiters[l])]

\* --------------------------------------------------------------- history
\* everOk: a poll has succeeded on this coordinator.  lastGood: the snapshot
\* of the most recent successful poll since the last cleanup (None if none).
\* lastDelay: the delay computed by the most recent failed poll attempt since
\* the last successful one (0 if none).  cleanedSince: a cleanup has reset the
\* coordinator since that failed attempt.  lastContact: how the most recent
\* poll attempt that contacted the panel ended; contactSinceCleanup: the same,
\* forgotten by a cleanup.  refreshReq: the refreshes the call has requested.
\* answer: what the panel answered to the command of the call's latest attempt
\* ("none" if the attempt raised before an answer).  lastReturned: the newest
\* snapshot a poll has handed to its caller so far (None if none).  hadOpen:
\* the callers whose session had its socket open when the cleanup in progress
\* began, and who have not dropped that session since.  authHist: "refused"
\* once the panel has answered an auth frame with a result 1..4, "resent"
\* once it has answered another auth frame after that ("none" before).
\* The panel answered the auth frame of the attempt with a result 0..4.
AuthAnswered(q) == Len(q) >= 2 /\ q[2] \in {"ok", "auth_error"}

Authenticating(q) ==
    authHist' = IF authHist # "none" /\ AuthAnswered(q) THEN "resent"
                ELSE IF authHist = "none" /\ Last(q) = "auth_error" THEN "refused"
                ELSE authHist

PollSucceeded(snapshot) ==
    /\ everOk' = TRUE
    /\ lastGood' = snapshot
    /\ lastDelay' = 0
    /\ cleanedSince' = FALSE

PollFailed(delay) ==
    /\ lastDelay' = delay
    /\ cleanedSince' = FALSE
    /\ UNCHANGED <<everOk, lastGood>>

Contacted(result) ==
    /\ lastContact' = result
    /\ contactSinceCleanup' = result

runHist     == <<everOk, lastGood, lastDelay, cleanedSince>>
contactHist == <<lastContact, contactSinceCleanup>>
callHist    == <<answer, lastReturned>>

\* ------------------------------------------------------------------ Init
\* Client.__init__: no socket, not authenticated, _last_activity = 0.  The
\* model keeps of _last_activity how time.time() - _last_activity compares
\* with 30 seconds ("under30", "at30", "over30"), and counts the sockets the
\* object has created, so that every socket has an identity (1, 2, ...).
NewClient ==
    [client |-> None, authenticated |-> FALSE, last_activity |-> "over30",
     opened |-> 0]

\* No call of a client-module function is under study.
NoCall ==
    fn = "none" /\ arg = <<>> /\ out = [tag |-> "none"] /\ session = NewClient

CoordinatorInit ==
    /\ panel = 1
    /\ next_update = 0
    /\ stored_status = None
    /\ attempt = 0
    /\ connection_failed = FALSE
    /\ cleanup_in_progress = FALSE
    /\ active = {}
    /\ lockId = 0
    /\ holder = [l \in Locks |-> None]
    /\ waiters = [l \in Locks |-> <<>>]
    /\ running = None
    /\ pc = [t \in Tasks |-> "idle"]
    /\ op = [t \in Tasks |-> "none"]
    /\ lk = [t \in Tasks |-> NoLock]
    /\ sock = [t \in Tasks |-> "none"]
    /\ iter = [t \in Tasks |-> 0]
    /\ flow = [t \in Tasks |-> "none"]
    /\ ret = [t \in Tasks |-> None]
    /\ snap = [t \in Tasks |-> None]
    /\ clpc = "idle"
    /\ toClose = <<>>
    /\ job = "none"
    /\ cleanups = 0
    /\ everOk = FALSE
    /\ lastGood = None
    /\ lastDelay = 0
    /\ cleanedSince = FALSE
    /\ lastContact = "none"
    /\ contactSinceCleanup = "none"
    /\ refreshReq = [t \in Tasks |-> 0]
    /\ answer = [t \in Tasks |-> "none"]
    /\ lastReturned = None
    /\ hadOpen = {}
    /\ authHist = "none"

Init == CoordinatorInit /\ NoCall

\* ----------------------------------------------------------- environment
\* Time passes until the deadline next_update is reached.  The code reads the
\* clock only to compare it with next_update and to set next_update from it,
\* so a shorter passage of time changes nothing the code can observe, and a
\* longer one nothing more.
Tick ==
    /\ running = None
    /\ now < next_update
    /\ next_update' = now
    /\ UNCHANGED <<envVars, stored_status, attempt, connection_failed,
                   cleanup_in_progress, active, lockVars, running, taskVars,
                   clVars, histVars>>

\* The panel's state changes (a zone opens, a partition is armed, ...).
PanelChange ==
    /\ running = None
    /\ panel < MaxVersion
    /\ panel' = panel + 1
    /\ UNCHANGED <<codecVars, coordVars, lockVars, running, taskVars, clVars,
                   histVars>>

\* --------------------------------------------- AmtCoordinator, the callers
\* A coroutine is started on the idle task of lowest number (idle tasks are
\* interchangeable).
CanStart(t) ==
    /\ running = None
    /\ pc[t] = "idle"
    /\ \A u \in Tasks : u < t => pc[u] # "idle"

\* `async with self._connection_lock` on the lock object the field names now:
\* enter at once if it is free, suspend in its queue otherwise.
Acquire(t, entered, queued) ==
    /\ lk' = [lk EXCEPT ![t] = lockId]
    /\ IF LockFree(lockId)
       THEN /\ holder' = [holder EXCEPT ![lockId] = t]
            /\ pc' = [pc EXCEPT ![t] = entered]
            /\ running' = t
            /\ UNCHANGED waiters
       ELSE /\ waiters' = [waiters EXCEPT ![lockId] = Append(@, t)]
            /\ pc' = [pc EXCEPT ![t] = queued]
            /\ UNCHANGED <<holder, running>>
    /\ UNCHANGED lockId

\* A suspended `async with` resumes once release() has handed it the lock.
Resume(t, queued, entered) ==
    /\ running = None
    /\ pc[t] = queued
    /\ holder[lk[t]] = t
    /\ pc' = [pc EXCEPT ![t] = entered]
    /\ running' = t

\* Faulty variant of InBackoff: the comparison the other way round.
InBackoffReversed == now > next_update

\* if datetime.now() < self.next_update
InBackoff == now < next_update

\* Faulty variant of BackoffSeconds: the delay without its cap.
BackoffSecondsUncapped(n) == 2 ^ n

\* seconds = min(2 ** self.attempt, 60)
BackoffSeconds(n) == Min(2 ^ n, BackoffCap)

\* _async_update_data up to the gate.
PollCall(t) ==
    /\ CanStart(t)
    /\ op' = [op EXCEPT ![t] = "poll"]
    /\ IF cleanup_in_progress
       THEN /\ pc' = [pc EXCEPT ![t] = "done"]
            /\ flow' = [flow EXCEPT ![t] = "return"]
            /\ ret' = [ret EXCEPT ![t] = stored_status]
            /\ running' = t
            /\ UNCHANGED <<attempt, lockVars, lk>>
       ELSE /\ attempt < MaxAttempt
            /\ attempt' = attempt + 1
            /\ IF InBackoff
               THEN /\ pc' = [pc EXCEPT ![t] = "done"]
                    /\ flow' = [flow EXCEPT ![t] = "return"]
                    /\ ret' = [ret EXCEPT ![t] = stored_status]
                    /\ running' = t
                    /\ UNCHANGED <<lockVars, lk>>
               ELSE /\ Acquire(t, "poll_try", "poll_wait")
                    /\ UNCHANGED <<flow, ret>>
    /\ UNCHANGED <<envVars, next_update, stored_status, connection_failed,
                   cleanup_in_progress, active, sock, iter, snap, clVars,
                   histVars>>

PollAcquired(t) ==
    /\ Resume(t, "poll_wait", "poll_try")
    /\ UNCHANGED <<envVars, coordVars, lockVars, op, lk, sock, iter, flow, ret,
                   snap, clVars, histVars>>

\* temp_client = ISecClient(...); self._active_connections.add(temp_client);
\* temp_client.connect(); temp_client.auth(self.password);
\* status = temp_client.status()
PollTry(t) ==
    /\ running = t
    /\ pc[t] = "poll_try"
    /\ active' = active \cup {t}
    /\ \E q \in PollTries :
         /\ sock' = [sock EXCEPT ![t] = SockAfter(q)]
         /\ Authenticating(q)
         /\ IF Raised(q)
            THEN /\ pc' = [pc EXCEPT ![t] = "poll_except"]
                 /\ Contacted("failed")
                 /\ UNCHANGED snap
            ELSE /\ pc' = [pc EXCEPT ![t] = "poll_store"]
                 /\ snap' = [snap EXCEPT ![t] = panel]
                 /\ Contacted("ok")
    /\ UNCHANGED <<envVars, next_update, stored_status, attempt,
                   connection_failed, cleanup_in_progress, lockVars, running,
                   op, lk, iter, flow, ret, clVars, runHist, refreshReq,
                   callHist, hadOpen>>

\* Faulty variant of StoreSuccess: the failure counter is not reset.
StoreSuccessKeepsAttempt(status) ==
    /\ stored_status' = status
    /\ next_update' = now
    /\ connection_failed' = FALSE
    /\ UNCHANGED attempt

\* Faulty variant of StoreSuccess: the failure flag is not cleared.
StoreSuccessKeepsFlag(status) ==
    /\ stored_status' = status
    /\ attempt' = 0
    /\ next_update' = now
    /\ UNCHANGED connection_failed

\* Faulty variant of StoreSuccess: a stored snapshot is never replaced.
StoreSuccessKeepsSnapshot(status) ==
    /\ stored_status' = IF stored_status = None THEN status ELSE stored_status
    /\ attempt' = 0
    /\ next_update' = now
    /\ connection_failed' = FALSE

\* self.stored_status = status; self.attempt = 0;
\* self.next_update = datetime.now(); self.connection_failed = False
StoreSuccess(status) ==
    /\ stored_status' = status
    /\ attempt' = 0
    /\ next_update' = now
    /\ connection_failed' = FALSE

\* The success path: store the snapshot, reset the counter and the deadline,
\* clear the failure flag, return the snapshot.
PollStore(t) ==
    /\ running = t
    /\ pc[t] = "poll_store"
    /\ StoreSuccess(snap[t])
    /\ flow' = [flow EXCEPT ![t] = "return"]
    /\ ret' = [ret EXCEPT ![t] = snap[t]]
    /\ pc' = [pc EXCEPT ![t] = "poll_finally"]
    /\ PollSucceeded(snap[t])
    /\ UNCHANGED <<envVars, authHist, cleanup_in_progress, active, lockVars, running, op,
                   lk, sock, iter, snap, clVars, contactHist, refreshReq,
                   callHist, hadOpen>>

\* Faulty variant of HasStored: the stored snapshot is never used, a failed
\* poll always raises.
HasStoredNever == FALSE

\* if self.stored_status: return self.stored_status / raise
HasStored == stored_status # None

\* The except path: set the failure flag, push the deadline back, return the
\* stored snapshot if there is one and re-raise otherwise.
PollExcept(t) ==
    /\ running = t
    /\ pc[t] = "poll_except"
    /\ connection_failed' = TRUE
    /\ next_update' = now + BackoffSeconds(attempt)
    /\ IF HasStored
       THEN /\ flow' = [flow EXCEPT ![t] = "return"]
            /\ ret' = [ret EXCEPT ![t] = stored_status]
       ELSE /\ flow' = [flow EXCEPT ![t] = "raise"]
            /\ UNCHANGED ret
    /\ pc' = [pc EXCEPT ![t] = "poll_finally"]
    /\ PollFailed(BackoffSeconds(attempt))
    /\ UNCHANGED <<envVars, authHist, stored_status, attempt, cleanup_in_progress, active,
                   lockVars, running, op, lk, sock, iter, snap, clVars,
                   contactHist, refreshReq, callHist, hadOpen>>

\* finally: temp_client.close(); self._active_connections.discard(temp_client);
\* then the `async with` releases the lock and the call returns or raises.
PollFinally(t) ==
    /\ running = t
    /\ pc[t] = "poll_finally"
    /\ sock' = [sock EXCEPT ![t] = "none"]
    /\ active' = active \ {t}
    /\ Release(lk[t])
    /\ pc' = [pc EXCEPT ![t] = "done"]
    /\ UNCHANGED <<envVars, next_update, stored_status, attempt,
                   connection_failed, cleanup_in_progress, lockId, running, op,
                   lk, iter, flow, ret, snap, clVars, histVars>>

\* async_execute_command up to the gate.
CmdCall(t) ==
    /\ CanStart(t)
    /\ op' = [op EXCEPT ![t] = "cmd"]
    /\ IF cleanup_in_progress
       THEN /\ pc' = [pc EXCEPT ![t] = "done"]
            /\ flow' = [flow EXCEPT ![t] = "return"]
            /\ ret' = [ret EXCEPT ![t] = Failed]
            /\ running' = t
            /\ UNCHANGED <<lockVars, lk>>
       ELSE /\ Acquire(t, "cmd_try", "cmd_wait")
            /\ UNCHANGED <<flow, ret>>
    /\ UNCHANGED <<envVars, coordVars, sock, iter, snap, clVars, histVars>>

CmdAcquired(t) ==
    /\ Resume(t, "cmd_wait", "cmd_try")
    /\ UNCHANGED <<envVars, coordVars, lockVars, op, lk, sock, iter, flow, ret,
                   snap, clVars, histVars>>

\* command_client = ISecClient(...); self._active_connections.add(...);
\* command_client.connect(); command_client.auth(self.password);
\* result = command_func(command_client); return result
CmdTry(t) ==
    /\ running = t
    /\ pc[t] = "cmd_try"
    /\ active' = active \cup {t}
    /\ \E q \in CmdTries :
         /\ sock' = [sock EXCEPT ![t] = SockAfter(q)]
         /\ Authenticating(q)
         /\ answer' = [answer EXCEPT ![t] = PanelAnswer(q)]
         /\ IF Raised(q)
            THEN /\ pc' = [pc EXCEPT ![t] = "cmd_except"]
                 /\ UNCHANGED <<flow, ret>>
            ELSE /\ pc' = [pc EXCEPT ![t] = "cmd_finally"]
                 /\ flow' = [flow EXCEPT ![t] = "return"]
                 /\ ret' = [ret EXCEPT ![t] = CommandResult(Last(q))]
    /\ UNCHANGED <<envVars, next_update, stored_status, attempt,
                   connection_failed, cleanup_in_progress, lockVars, running,
                   op, lk, iter, snap, clVars, runHist, contactHist,
                   refreshReq, lastReturned, hadOpen>>

\* if attempt == max_retries - 1: raise
LastAttempt(i) == i = max_retries - 1

\* except Exception: re-raise on the last attempt, otherwise suspend in
\* asyncio.sleep(0.5), still inside the except block and the lock.
CmdExcept(t) ==
    /\ running = t
    /\ pc[t] = "cmd_except"
    /\ IF LastAttempt(iter[t])
       THEN /\ flow' = [flow EXCEPT ![t] = "raise"]
            /\ pc' = [pc EXCEPT ![t] = "cmd_finally"]
            /\ UNCHANGED running
       ELSE /\ pc' = [pc EXCEPT ![t] = "cmd_sleep"]
            /\ running' = None
            /\ UNCHANGED flow
    /\ UNCHANGED <<envVars, coordVars, lockVars, op, lk, sock, iter, ret, snap,
                   clVars, histVars>>

\* asyncio.sleep(0.5) is over; the except block ends normally.
CmdWake(t) ==
    /\ running = None
    /\ pc[t] = "cmd_sleep"
    /\ running' = t
    /\ flow' = [flow EXCEPT ![t] = "continue"]
    /\ pc' = [pc EXCEPT ![t] = "cmd_finally"]
    /\ UNCHANGED <<envVars, coordVars, lockVars, op, lk, sock, iter, ret, snap,
                   clVars, histVars>>

\* finally: command_client.close(); discard it; command_client = None.  Then
\* a return or raise leaves the `async with`; after an attempt that slept the
\* loop goes on to the next attempt, and the code after the loop (lines
\* 265-269: request a refresh unless a cleanup is in progress) runs once the
\* loop is exhausted without a return or raise.
CmdFinally(t) ==
    /\ running = t
    /\ pc[t] = "cmd_finally"
    /\ sock' = [sock EXCEPT ![t] = "none"]
    /\ active' = active \ {t}
    /\ toClose' = [i \in DOMAIN toClose |->
                     IF toClose[i] = t THEN Dead ELSE toClose[i]]
    /\ hadOpen' = hadOpen \ {t}
    /\ IF flow[t] = "continue" /\ iter[t] + 1 < max_retries
       THEN /\ iter' = [iter EXCEPT ![t] = @ + 1]
            /\ pc' = [pc EXCEPT ![t] = "cmd_try"]
            /\ UNCHANGED <<lockVars, running, flow, ret, refreshReq>>
       ELSE /\ Release(lk[t])
            /\ pc' = [pc EXCEPT ![t] = "done"]
            /\ UNCHANGED running
            /\ IF flow[t] = "continue"
               THEN /\ flow' = [flow EXCEPT ![t] = "return"]
                    /\ ret' = [ret EXCEPT ![t] = None]
                    /\ refreshReq' = [refreshReq EXCEPT ![t] =
                                        IF cleanup_in_progress THEN @ ELSE @ + 1]
               ELSE UNCHANGED <<flow, ret, refreshReq>>
            /\ UNCHANGED <<lockId, iter>>
    /\ UNCHANGED <<envVars, authHist, next_update, stored_status, attempt,
                   connection_failed, cleanup_in_progress, op, lk, snap, clpc,
                   job, cleanups, runHist, contactHist, callHist>>

\* ------------------------------------------------------- async_cleanup
\* list(self._active_connections): the set in some order.
Orderings(S) ==
    {q \in [1 .. Cardinality(S) -> S] : \A i, j \in DOMAIN q : i # j => q[i] # q[j]}

\* async_cleanup up to its first await: mark the cleanup, copy the set of
\* active connections, hand the first force-close to the executor (that of the
\* first connection, or of the main client when there is none).
CleanupStart ==
    /\ running = None
    /\ clpc = "idle"
    /\ cleanups < MaxCleanups
    /\ cleanup_in_progress' = TRUE
    /\ \E q \in Orderings(active) : toClose' = q
    /\ clpc' = IF active = {} THEN "main" ELSE "conns"
    /\ job' = "pending"
    /\ hadOpen' = {t \in active : sock[t] = "open"}
    /\ UNCHANGED <<envVars, authHist, next_update, stored_status, attempt,
                   connection_failed, active, lockVars, running, taskVars,
                   cleanups, runHist, contactHist, refreshReq, callHist>>

\* _force_close_sync on the executor thread: close the client's socket if it
\* has one.  The main client (self.isec_client) is never connected, and a
\* client its coroutine has dropped is closed already.
CleanupJob ==
    /\ job = "pending"
    /\ job' = "done"
    /\ IF clpc = "conns" /\ Head(toClose) \in Tasks
       THEN sock' = [sock EXCEPT ![Head(toClose)] = IF @ = "open" THEN "closed" ELSE @]
       ELSE UNCHANGED sock
    /\ UNCHANGED <<envVars, coordVars, lockVars, running, pc, op, lk, iter, flow,
                   ret, snap, clpc, toClose, cleanups, histVars>>

\* asyncio.wait_for(..., timeout=1.0) gives up on a job that has not ended
\* after a second: the TimeoutError is logged and the cleanup goes on.  The
\* job is cancelled; if it was already running and closes the socket later,
\* the state is one the model reaches with the job ending in time, because
\* no step of the cleanup reads the socket.
CleanupTimeout ==
    /\ job = "pending"
    /\ job' = "timeout"
    /\ UNCHANGED <<envVars, coordVars, lockVars, running, taskVars, clpc,
                   toClose, cleanups, histVars>>

\* The awaited force-close is over: go on to the next connection, or clear
\* the set and force-close the main client.
CleanupNext ==
    /\ running = None
    /\ clpc = "conns"
    /\ job \in {"done", "timeout"}
    /\ toClose' = Tail(toClose)
    /\ job' = "pending"
    /\ IF Tail(toClose) = <<>>
       THEN /\ active' = {}
            /\ clpc' = "main"
       ELSE UNCHANGED <<active, clpc>>
    /\ UNCHANGED <<envVars, next_update, stored_status, attempt,
                   connection_failed, cleanup_in_progress, lockVars, running,
                   taskVars, cleanups, histVars>>

\* Reset the state, replace the lock by a new one, clear the cleanup mark.
CleanupFinish ==
    /\ running = None
    /\ clpc = "main"
    /\ job \in {"done", "timeout"}
    /\ stored_status' = None
    /\ attempt' = 0
    /\ connection_failed' = FALSE
    /\ next_update' = now
    /\ lockId' = lockId + 1
    /\ cleanup_in_progress' = FALSE
    /\ clpc' = "idle"
    /\ job' = "none"
    /\ cleanups' = cleanups + 1
    /\ lastGood' = None
    /\ cleanedSince' = TRUE
    /\ contactSinceCleanup' = "none"
    /\ UNCHANGED <<envVars, authHist, active, holder, waiters, running, taskVars, toClose,
                   everOk, lastDelay, lastContact, refreshReq, callHist,
                   hadOpen>>

\* The call returns or raises to the collaborator (flow, ret) and leaves the
\* loop; the task is free for the next call.
Collect(t) ==
    /\ running = t
    /\ pc[t] = "done"
    /\ running' = None
    /\ pc' = [pc EXCEPT ![t] = "idle"]
    /\ op' = [op EXCEPT ![t] = "none"]
    /\ lk' = [lk EXCEPT ![t] = NoLock]
    /\ iter' = [iter EXCEPT ![t] = 0]
    /\ flow' = [flow EXCEPT ![t] = "none"]
    /\ ret' = [ret EXCEPT ![t] = None]
    /\ snap' = [snap EXCEPT ![t] = None]
    /\ refreshReq' = [refreshReq EXCEPT ![t] = 0]
    /\ answer' = [answer EXCEPT ![t] = "none"]
    /\ lastReturned' =
         IF op[t] = "poll" /\ flow[t] = "return" /\ ret[t] # None
         THEN Max(lastReturned, ret[t])
         ELSE lastReturned
    /\ UNCHANGED <<envVars, authHist, coordVars, lockVars, sock, clVars, runHist,
                   contactHist, hadOpen>>

Next ==
    \/ Tick
    \/ PanelChange
    \/ \E t \in Tasks : PollCall(t)
    \/ \E t \in Tasks : PollAcquired(t)
    \/ \E t \in Tasks : PollTry(t)
    \/ \E t \in Tasks : PollStore(t)
    \/ \E t \in Tasks : PollExcept(t)
    \/ \E t \in Tasks : PollFinally(t)
    \/ \E t \in Tasks : CmdCall(t)
    \/ \E t \in Tasks : CmdAcquired(t)
    \/ \E t \in Tasks : CmdTry(t)
    \/ \E t \in Tasks : CmdExcept(t)
    \/ \E t \in Tasks : CmdWake(t)
    \/ \E t \in Tasks : CmdFinally(t)
    \/ CleanupStart
    \/ CleanupJob
    \/ CleanupTimeout
    \/ CleanupNext
    \/ CleanupFinish
    \/ \E t \in Tasks : Collect(t)

Spec == Init /\ [][Next]_vars

\* ------------------------------------------------------ fair scheduling
\* The event loop keeps its ready callbacks in a FIFO queue and runs them in
\* order, and every blocking client call of an attempt returns or raises
\* (connect and the socket carry a timeout): a coroutine that can go on (it
\* is running, it has been handed the lock, or its sleep is over) does go on,
\* however often other callbacks run in between.  Nothing obliges the
\* collaborator to start a call or a cleanup, nor the clock to reach the
\* deadline; the cleanup's own progress is not assumed either.
Scheduled(t) ==
    \/ PollAcquired(t) \/ PollTry(t) \/ PollStore(t) \/ PollExcept(t)
    \/ PollFinally(t)
    \/ CmdAcquired(t) \/ CmdTry(t) \/ CmdExcept(t) \/ CmdWake(t)
    \/ CmdFinally(t)
    \/ Collect(t)

FairPollCall(t) == attempt < FairMaxAttempt /\ PollCall(t)

FairNext ==
    \/ Tick
    \/ \E t \in Tasks : FairPollCall(t)
    \/ \E t \in Tasks : PollAcquired(t)
    \/ \E t \in Tasks : PollTry(t)
    \/ \E t \in Tasks : PollStore(t)
    \/ \E t \in Tasks : PollExcept(t)
    \/ \E t \in Tasks : PollFinally(t)
    \/ \E t \in Tasks : CmdCall(t)
    \/ \E t \in Tasks : CmdAcquired(t)
    \/ \E t \in Tasks : CmdTry(t)
    \/ \E t \in Tasks : CmdExcept(t)
    \/ \E t \in Tasks : CmdWake(t)
    \/ \E t \in Tasks : CmdFinally(t)
    \/ CleanupStart
    \/ CleanupJob
    \/ CleanupTimeout
    \/ CleanupNext
    \/ CleanupFinish
    \/ \E t \in Tasks : Collect(t)

FairSpec ==
    Init /\ [][FairNext]_vars /\ \A t \in Tasks : SF_vars(Scheduled(t))

\* ====================================================== the client module
\* (isec2/client.py).  Byte sequences are 1-based here and 0-based in the
\* source: the source's data[k] is data[k + 1].

\* (octet & (1 << j)) > 0
BitSet(octet, j) == (octet \div (2 ^ j)) % 2 = 1

\* a ^ b on the low eight bits.
RECURSIVE XorFrom(_, _, _)
XorFrom(a, b, j) ==
    IF j > 7 THEN 0
    ELSE (((a \div (2 ^ j)) + (b \div (2 ^ j))) % 2) * (2 ^ j) + XorFrom(a, b, j + 1)
Xor(a, b) == XorFrom(a, b, 0)

\* checksum = 0; for value in buffer: checksum ^= value
RECURSIVE XorAll(_)
XorAll(buffer) ==
    IF Len(buffer) = 0 THEN 0
    ELSE Xor(XorAll(SubSeq(buffer, 1, Len(buffer) - 1)), buffer[Len(buffer)])

\* Faulty variant of calculate_checksum: the XOR is not inverted.
calculate_checksum_plain(buffer) == XorAll(buffer) % 256

\* checksum ^= 0xFF; checksum &= 0xFF
calculate_checksum(buffer) == Xor(XorAll(buffer), 255) % 256

\* [(n >> 8) & 0xFF, n & 0xFF], for 0 <= n <= 0xFFFF
split_into_octets(n) == <<(n \div 256) % 256, n % 256>>

\* buf[0] * 256 + buf[1]
merge_octets(buf) == buf[1] * 256 + buf[2]

\* data[a:b], for a >= 0 and b >= 0
Slice(data, a, b) == SubSeq(data, a + 1, Min(b, Len(data)))

\* payload[k]
At(payload, k) == payload[k + 1]

\* ---- Client.auth, up to the sending of the frame.  A character of the
\* password is an ASCII digit ("ascii"), another decimal digit such as an
\* Arabic-Indic one ("decimal": str.isdigit() is true and int() converts it),
\* another digit character such as a superscript ("digit": str.isdigit() is
\* true and int() raises ValueError), or anything else ("other").
CharClasses == {"ascii", "decimal", "digit", "other"}

\* The loop over the password: the first character the loop rejects decides.
RECURSIVE ParsePassword(_, _)
ParsePassword(password, k) ==
    IF k > Len(password) THEN "ok"
    ELSE IF Len(password) # 6 \/ password[k] = "other" THEN "CommunicationError"
    ELSE IF password[k] = "digit" THEN "ValueError"
    ELSE ParsePassword(password, k + 1)

\* The client is "new" (no socket), "connected", or "authenticated"
\* (connected, authenticated and active within the last 30 seconds).
ClientStates == {"new", "connected", "authenticated"}

auth(client, password) ==
    IF client = "new" THEN [tag |-> "CommunicationError"]
    ELSE IF client = "authenticated" THEN [tag |-> "True"]
    ELSE IF ParsePassword(password, 1) # "ok"
         THEN [tag |-> ParsePassword(password, 1)]
         ELSE [tag |-> "sent"]

\* ---- build_status
\* for i, octet in enumerate(payload[start:stop]): for j in range(8):
\*     zone_idx = j + i * 8
\*     if zone_idx < 61: status["zones"][zone_idx + 1][flag] = (octet & (1 << j)) > 0
\* Every zone starts with the flag False and is assigned at most once.

\* Faulty variant of BitmapFlag: the bits of an octet taken from the top.
BitmapFlagReversed(payload, start, stop, n) ==
    \E i \in 0 .. (stop - start - 1) : \E j \in 0 .. 7 :
      /\ j + i * 8 < ZoneCount
      /\ j + i * 8 + 1 = n
      /\ BitSet(At(payload, start + i), 7 - j)

\* The flag of zone n after one of the bitmap loops over payload[start:stop].
BitmapFlag(payload, start, stop, n) ==
    \E i \in 0 .. (stop - start - 1) : \E j \in 0 .. 7 :
      /\ j + i * 8 < ZoneCount
      /\ j + i * 8 + 1 = n
      /\ BitSet(At(payload, start + i), j)

\* Faulty variant of ZoneEnabled: the bitmap read one octet too far.
ZoneEnabledWide(payload, n) == BitmapFlag(payload, 12, 20, n)

\* payload[12:19]
ZoneEnabled(payload, n) == BitmapFlag(payload, 12, 19, n)

Zone(payload, n) ==
    [number     |-> n,
     enabled    |-> ZoneEnabled(payload, n),
     open       |-> BitmapFlag(payload, 38, 45, n),
     violated   |-> BitmapFlag(payload, 46, 53, n),
     anulated   |-> BitmapFlag(payload, 54, 62, n),
     tamper     |-> BitmapFlag(payload, 89, 96, n),
     lowBattery |-> BitmapFlag(payload, 105, 112, n)]

\* Faulty variant of Partition: the octets taken from byte 22 + number.
PartitionOneByteOn(payload, number) ==
    LET octet == At(payload, 22 + number)
    IN  [number  |-> number,
         enabled |-> BitSet(octet, 7),
         armed   |-> BitSet(octet, 0),
         firing  |-> BitSet(octet, 2),
         fired   |-> BitSet(octet, 3),
         stay    |-> BitSet(octet, 6)]

\* for i in range(5): octet = payload[22 + i]; the partition's number is i + 1
Partition(payload, number) ==
    LET octet == At(payload, 22 + number - 1)
    IN  [number  |-> number,
         enabled |-> BitSet(octet, 7),
         armed   |-> BitSet(octet, 0),
         firing  |-> BitSet(octet, 2),
         fired   |-> BitSet(octet, 3),
         stay    |-> BitSet(octet, 6)]

\* Faulty variant of get_status: the two bits taken one place lower.
get_status_bits_4_5(payload) ==
    LET status == (At(payload, 20) \div 16) % 4
    IN  CASE status = 0 -> "disarmed"
          [] status = 1 -> "partial_armed"
          [] status = 3 -> "armed_away"
          [] OTHER -> "unknown"

\* status = (payload[20] >> 5) & 0x03
get_status(payload) ==
    LET status == (At(payload, 20) \div 32) % 4
    IN  CASE status = 0 -> "disarmed"
          [] status = 1 -> "partial_armed"
          [] status = 3 -> "armed_away"
          [] OTHER -> "unknown"

battery_status_for(resp) ==
    LET batt == At(resp, 134)
    IN  CASE batt = 1 -> "dead"
          [] batt = 2 -> "low"
          [] batt = 3 -> "middle"
          [] batt = 4 -> "full"
          [] OTHER -> "unknown"

StatusOf(payload) ==
    [model         |-> IF At(payload, 0) = 1 THEN "AMT-8000" ELSE "Unknown",
     version       |-> <<At(payload, 1), At(payload, 2), At(payload, 3)>>,
     status        |-> get_status(payload),
     zonesFiring   |-> BitSet(At(payload, 20), 3),
     zonesClosed   |-> BitSet(At(payload, 20), 2),
     siren         |-> BitSet(At(payload, 20), 1),
     zones         |-> [n \in 1 .. ZoneCount |-> Zone(payload, n)],
     partitions    |-> [n \in 1 .. PartitionCount |-> Partition(payload, n)],
     batteryStatus |-> battery_status_for(payload),
     tamper        |-> BitSet(At(payload, 71), 1)]

\* Faulty variant of WrongLength: only a short payload is refused.
WrongLengthShortOnly(payload) == Len(payload) < PayloadLength

\* if len(payload) != 143
WrongLength(payload) == Len(payload) # PayloadLength

\* merge_octets raises IndexError when data[4:6] has fewer than two bytes.
build_status(data) ==
    IF Len(Slice(data, 4, 6)) < 2 THEN [tag |-> "IndexError"]
    ELSE LET length  == merge_octets(Slice(data, 4, 6)) - 2
             payload == Slice(data, HeaderLength, HeaderLength + length)
         IN  IF WrongLength(payload) THEN [tag |-> "ValueError"]
             ELSE [tag |-> "ok", status |-> StatusOf(payload)]

\* ------------------------------------------------- the calls under study
ByteSamples == {0, 1, 2, 4, 8, 16, 32, 64, 128, 85, 170, 255}

SeqsUpTo(S, n) == UNION {[1 .. k -> S] : k \in 0 .. n}

AuthCalls ==
    {[client |-> c, password |-> p] :
       c \in ClientStates, p \in SeqsUpTo(CharClasses, MaxPwLen)}

ChecksumCalls == SeqsUpTo(ByteSamples, MaxBufLen)

\* A response of `total` bytes whose length field (bytes 4-5, when present)
\* holds `declared` and whose bytes from the 8th on are given by fill (a
\* function of the position after the header).
Response(total, declared, fill) ==
    [data |-> [k \in 1 .. total |->
                 IF k = 5 THEN split_into_octets(declared)[1]
                 ELSE IF k = 6 THEN split_into_octets(declared)[2]
                 ELSE IF k > HeaderLength THEN fill[k - 1 - HeaderLength]
                 ELSE 0],
     total |-> total,
     declared |-> declared]

\* Responses of about the right length and of no length to speak of, with
\* length fields about right and about nothing, filled with one byte value.
NearLengths == (PayloadLength - LenSlack) .. (PayloadLength + LenSlack)
LengthResponses ==
    {Response(total, declared, [k \in 0 .. total |-> b]) :
       total \in (0 .. (HeaderLength + LenSlack))
                   \cup {HeaderLength + n : n \in NearLengths},
       declared \in (0 .. (2 + LenSlack)) \cup {2 + n : n \in NearLengths},
       b \in {0, 255}}

\* Well-formed responses (143 bytes of payload and the checksum byte after
\* it): every payload byte has the background value but one marked byte.
MarkedBytes == (12 .. 20) \cup (22 .. 26) \cup (38 .. 62) \cup (89 .. 96)
                 \cup (105 .. 112) \cup {0, 71, 134}
MarkedResponses ==
    {Response(HeaderLength + PayloadLength + 1, PayloadLength + 2,
              [k \in 0 .. PayloadLength |-> IF k = p THEN v ELSE b]) :
       p \in MarkedBytes, v \in ByteSamples, b \in {0, 255}}

\* Well-formed responses of zeros but for the status byte (20) or the byte of
\* one partition (22..26), which takes every value.
StatusBytes == {20} \cup (22 .. 26)
ExhaustiveResponses ==
    {Response(HeaderLength + PayloadLength + 1, PayloadLength + 2,
              [k \in 0 .. PayloadLength |-> IF k = p THEN v ELSE 0]) :
       p \in StatusBytes, v \in 0 .. 255}

StatusCalls == LengthResponses \cup MarkedResponses \cup ExhaustiveResponses

Pending == [tag |-> "pending"]

CodecInit ==
    /\ CoordinatorInit
    /\ session = NewClient
    /\ out = Pending
    /\ \/ fn = "auth" /\ arg \in AuthCalls
       \/ fn = "calculate_checksum" /\ arg \in ChecksumCalls
       \/ fn = "build_status" /\ arg \in StatusCalls

CallAuth ==
    /\ fn = "auth" /\ out = Pending
    /\ out' = auth(arg.client, arg.password)
    /\ UNCHANGED <<fn, arg, session, coordinatorVars>>

CallChecksum ==
    /\ fn = "calculate_checksum" /\ out = Pending
    /\ out' = [tag |-> "ok", checksum |-> calculate_checksum(arg)]
    /\ UNCHANGED <<fn, arg, session, coordinatorVars>>

CallBuildStatus ==
    /\ fn = "build_status" /\ out = Pending
    /\ out' = build_status(arg.data)
    /\ UNCHANGED <<fn, arg, session, coordinatorVars>>

CodecNext == CallAuth \/ CallChecksum \/ CallBuildStatus

CodecSpec == CodecInit /\ [][CodecNext]_vars

\* ============================================== the session (class Client)
\* One Client object under any sequence of calls of its methods and of the
\* coordinator's forced close.  A call is
\* a blocking call: it runs from entry to return or raise as one step, which
\* leaves the record of the call in fn, arg and out; the caller then takes
\* the result (ClientReturn), and the next call or the passing of time
\* follows.

\* What a call comes to: it returns `tag` or raises the exception `tag` with
\* `message`; `sent` is the frame it handed to socket.send, <<>> if none.
Return(value, sent) ==
    [raised |-> FALSE, tag |-> value, message |-> "", sent |-> sent]
Raise(exception, message, sent) ==
    [raised |-> TRUE, tag |-> exception, message |-> message, sent |-> sent]

NotConnected ==
    Raise("CommunicationError", "Client not connected. Call Client.connect", <<>>)

\* bytes(data + [cs])
Framed(data) == data \o <<calculate_checksum(data)>>

\* self._last_activity = time.time()
Touched(self) == [self EXCEPT !.last_activity = "under30"]

\* The session after close().  With no socket, close() returns at once.
\* Otherwise shutdown() runs inside try/except: pass and close() inside
\* try/except: pass/finally, so whatever the two calls do, the finally block
\* runs: self.client = None; self._authenticated = False.
Closed(self) ==
    IF self.client = None THEN self
    ELSE [self EXCEPT !.client = None, !.authenticated = FALSE]

\* Client.close, when the socket's shutdown and close succeed or raise.
Client_close(self, shutdown_ok, close_ok) ==
    [session |-> Closed(self), out |-> Return("None", <<>>)]

\* connect() returns at once, keeping the socket it has, unless
\* time.time() - self._last_activity > 30.
KeepsSocket(self) == self.client # None /\ self.last_activity # "over30"

\* Client.connect; `reachable` tells whether the new socket connects.  A
\* socket that does not connect is closed and dropped.
Client_connect(self, reachable) ==
    IF KeepsSocket(self) THEN [session |-> self, out |-> Return("None", <<>>)]
    ELSE LET closed == Closed(self)
             made   == [closed EXCEPT !.opened = @ + 1]
         IN  IF reachable
             THEN [session |-> Touched([made EXCEPT !.client = made.opened]),
                   out |-> Return("None", <<>>)]
             ELSE [session |-> [made EXCEPT !.client = None],
                   out |-> Raise("CommunicationError", "Failed to connect", <<>>)]

\* What the network does with one request: socket.send raises ("send"),
\* socket.recv raises ("recv"; a timeout is a socket error), or the panel
\* answers `reply`, of which the first recv returns the first `first` bytes
\* (all of them unless the stream delivers the answer in pieces).
Exchanges(replies, splits) ==
    {[fault |-> f, reply |-> <<>>, first |-> 0] : f \in {"send", "recv"}}
      \cup UNION {{[fault |-> "none", reply |-> r, first |-> n] :
                     n \in {Len(r)} \cup {s \in splits : s < Len(r)}} :
                  r \in replies}

\* send(payload); recv(1024), inside try ... except socket.error:
\* self.close(); raise CommunicationError.
Transact(self, frame, x) ==
    IF x.fault = "send"
    THEN [failed |-> TRUE, session |-> Closed(self), sent |-> <<>>, data |-> <<>>]
    ELSE IF x.fault = "recv"
    THEN [failed |-> TRUE, session |-> Closed(Touched(self)), sent |-> frame,
          data |-> <<>>]
    ELSE [failed |-> FALSE, session |-> Touched(self), sent |-> frame,
          data |-> SubSeq(x.reply, 1, Min(x.first, RecvSize))]

SocketError(sent) == Raise("CommunicationError", "Socket error", sent)

\* A password is a sequence of characters, each with its class and, for a
\* character int() converts, its value.
Chars(values, class) ==
    [k \in 1 .. Len(values) |-> [class |-> class, value |-> values[k]]]
Classes(password) == [k \in 1 .. Len(password) |-> password[k].class]
Digits(password) == [k \in 1 .. Len(password) |-> password[k].value]

AuthFrame(password) ==
    Framed(dst_id \o our_id \o <<0, 10>> \o commands.auth \o <<device_type>>
             \o Digits(password) \o <<software_version>>)

\* Faulty variant of AuthReply: result 4 is not told from an unknown result.
AuthReplyWithoutPermission(data, sent) ==
    IF Len(data) < 9
    THEN Raise("CommunicationError", "Invalid authentication response", sent)
    ELSE LET result == At(data, 8)
         IN  CASE result = 0 -> Return("True", sent)
               [] result = 1 -> Raise("AuthError", "Invalid password", sent)
               [] result = 2 -> Raise("AuthError", "Incorrect software version", sent)
               [] result = 3 -> Raise("AuthError", "Alarm panel will call back", sent)
               [] OTHER -> Raise("CommunicationError",
                                 "Unknown payload response for authentication", sent)

\* What auth makes of the bytes received: result = return_data[8:9][0]
AuthReply(data, sent) ==
    IF Len(data) < 9
    THEN Raise("CommunicationError", "Invalid authentication response", sent)
    ELSE LET result == At(data, 8)
         IN  CASE result = 0 -> Return("True", sent)
               [] result = 1 -> Raise("AuthError", "Invalid password", sent)
               [] result = 2 -> Raise("AuthError", "Incorrect software version", sent)
               [] result = 3 -> Raise("AuthError", "Alarm panel will call back", sent)
               [] result = 4 -> Raise("AuthError", "Waiting for user permission", sent)
               [] OTHER -> Raise("CommunicationError",
                                 "Unknown payload response for authentication", sent)

\* The client as auth's first checks see it.
ClientState(self) ==
    IF self.client = None THEN "new"
    ELSE IF self.authenticated /\ self.last_activity = "under30" THEN "authenticated"
    ELSE "connected"

\* Client.auth.  Only a socket error closes the socket; the other errors
\* are raised past the except clause.
Client_auth(self, password, x) ==
    LET checked == auth(ClientState(self), Classes(password))
        t == Transact(self, AuthFrame(password), x)
        reply == AuthReply(t.data, t.sent)
    IN  IF self.client = None THEN [session |-> self, out |-> NotConnected]
        ELSE IF checked.tag = "True"
        THEN [session |-> self, out |-> Return("True", <<>>)]
        ELSE IF checked.tag # "sent"
        THEN [session |-> self,
              out |-> Raise(checked.tag, "Cannot parse password", <<>>)]
        ELSE IF t.failed THEN [session |-> t.session, out |-> SocketError(t.sent)]
        ELSE [session |-> [t.session EXCEPT !.authenticated =
                             IF reply.tag = "True" THEN TRUE ELSE @],
              out |-> reply]

StatusFrame == Framed(dst_id \o our_id \o <<0, 2>> \o commands.status)

\* Client.status: one recv, and build_status on what it returned.  The
\* ValueError and IndexError of build_status are raised past the except
\* clause.
Client_status(self, x) ==
    LET t == Transact(self, StatusFrame, x)
        built == build_status(t.data)
    IN  IF self.client = None THEN [session |-> self, out |-> NotConnected]
        ELSE IF t.failed THEN [session |-> t.session, out |-> SocketError(t.sent)]
        ELSE [session |-> t.session,
              out |-> IF built.tag = "ok"
                      THEN [raised |-> FALSE, tag |-> "ok", message |-> "",
                            sent |-> t.sent, status |-> built.status]
                      ELSE Raise(built.tag, "", t.sent)]

\* Faulty variant of WirePartition: partition 0 is sent as 0.
WirePartitionPlain(partition) == partition

\* if partition == 0: partition = 0xFF
WirePartition(partition) == IF partition = 0 THEN 255 ELSE partition

ArmFrame(partition) ==
    Framed(dst_id \o our_id \o <<0, 4>> \o commands.arm_disarm
             \o <<WirePartition(partition), 1>>)
DisarmFrame(partition) ==
    Framed(dst_id \o our_id \o <<0, 4>> \o commands.arm_disarm
             \o <<WirePartition(partition), 0>>)
PanicFrame(type) == Framed(dst_id \o our_id \o <<0, 3>> \o commands.panic \o <<type>>)

\* Faulty variant of Acknowledged: the byte one place on is looked at.
AcknowledgedOnePlaceOn(data, k, code) == Len(data) > k + 1 /\ At(data, k + 1) = code

\* len(return_data) > k and return_data[k] == code
Acknowledged(data, k, code) == Len(data) > k /\ At(data, k) = code

\* arm_system, disarm_system and panic after their frame is built.
Command(self, frame, x, k, code, yes, no) ==
    LET t == Transact(self, frame, x)
    IN  IF self.client = None THEN [session |-> self, out |-> NotConnected]
        ELSE IF t.failed THEN [session |-> t.session, out |-> SocketError(t.sent)]
        ELSE [session |-> t.session,
              out |-> Return(IF Acknowledged(t.data, k, code) THEN yes ELSE no,
                             t.sent)]

Client_arm_system(self, partition, x) ==
    Command(self, ArmFrame(partition), x, 8, 145, "armed", "not_armed")
Client_disarm_system(self, partition, x) ==
    Command(self, DisarmFrame(partition), x, 8, 145, "disarmed", "not_disarmed")
Client_panic(self, type, x) ==
    Command(self, PanicFrame(type), x, 7, 254, "triggered", "not_triggered")

\* ---- the calls made on the session
\* A reply of n bytes, all zero but byte k.
Reply(n, k, v) == [i \in 1 .. n |-> IF i = k + 1 THEN v ELSE 0]

SessionPasswords ==
    {Chars(<<1, 2, 3, 4, 5, 6>>, "ascii"), Chars(<<1, 2, 3, 4, 5>>, "ascii"),
     Chars(<<0, 0, 0, 0, 0, 0>>, "other"), <<>>}
AuthReplies == {Reply(n, 8, v) : n \in {0, 8, 9, 10}, v \in (0 .. 5) \cup {255}}
CommandReplies ==
    {Reply(n, k, v) : n \in {0, 7, 8, 9, 10}, k \in {7, 8}, v \in {0, 145, 254}}
StatusReplies ==
    {<<>>}
      \cup {Response(HeaderLength + PayloadLength + 1, PayloadLength + 2,
                     [k \in 0 .. PayloadLength |-> b]).data : b \in {0, 255}}
      \cup {Response(HeaderLength + PayloadLength, PayloadLength + 1,
                     [k \in 0 .. PayloadLength |-> 0]).data}
StatusSplits == {HeaderLength, 100}
Partitions == 0 .. PartitionCount
PanicTypes == {1}

SessionInit == CoordinatorInit /\ NoCall

\* One call: the method, the session before it and the inputs of the call,
\* the session after it and what the call came to.
Called(method, inputs, result) ==
    /\ fn = "none"
    /\ fn' = method
    /\ arg' = [before |-> session] @@ inputs
    /\ session' = result.session
    /\ out' = result.out
    /\ UNCHANGED coordinatorVars

ClientConnect ==
    /\ session.opened < MaxSockets
    /\ \E reachable \in BOOLEAN :
         Called("connect", [reachable |-> reachable],
                Client_connect(session, reachable))

ClientAuth ==
    \E password \in SessionPasswords, x \in Exchanges(AuthReplies, {}) :
       Called("auth", [password |-> password, x |-> x],
              Client_auth(session, password, x))

ClientStatus ==
    \E x \in Exchanges(StatusReplies, StatusSplits) :
       Called("status", [x |-> x], Client_status(session, x))

ClientArm ==
    \E partition \in Partitions, x \in Exchanges(CommandReplies, {}) :
       Called("arm_system", [partition |-> partition, x |-> x],
              Client_arm_system(session, partition, x))

ClientDisarm ==
    \E partition \in Partitions, x \in Exchanges(CommandReplies, {}) :
       Called("disarm_system", [partition |-> partition, x |-> x],
              Client_disarm_system(session, partition, x))

ClientPanic ==
    \E type \in PanicTypes, x \in Exchanges(CommandReplies, {}) :
       Called("panic", [type |-> type, x |-> x], Client_panic(session, type, x))

ClientClose ==
    \E shutdown_ok \in BOOLEAN, close_ok \in BOOLEAN :
       Called("close", [shutdown_ok |-> shutdown_ok, close_ok |-> close_ok],
              Client_close(session, shutdown_ok, close_ok))

\* The coordinator's forced close of the session, _force_close_sync
\* (coordinator.py): with a socket, settimeout(0.1), close(), detach()
\* (errors ignored) and client.client = None; when settimeout or close
\* raises, the except clause is reached before the assignment and the field
\* keeps the socket.  _authenticated is not touched.
ForceClosed(self, ok) ==
    IF self.client = None \/ ~ok THEN self ELSE [self EXCEPT !.client = None]

ClientForceClose ==
    \E ok \in BOOLEAN :
       Called("force_close", [ok |-> ok],
              [session |-> ForceClosed(session, ok), out |-> Return("None", <<>>)])

\* The caller has the result of the call.
ClientReturn ==
    /\ fn # "none"
    /\ fn' = "none" /\ arg' = <<>> /\ out' = [tag |-> "none"]
    /\ UNCHANGED <<session, coordinatorVars>>

\* Time passes between two calls: the last activity gets older.
Elapse ==
    /\ fn = "none"
    /\ session.last_activity # "over30"
    /\ session' = [session EXCEPT !.last_activity =
                     IF @ = "under30" THEN "at30" ELSE "over30"]
    /\ UNCHANGED <<fn, arg, out, coordinatorVars>>

SessionNext ==
    \/ ClientConnect
    \/ ClientAuth
    \/ ClientStatus
    \/ ClientArm
    \/ ClientDisarm
    \/ ClientPanic
    \/ ClientClose
    \/ ClientForceClose
    \/ ClientReturn
    \/ Elapse

SessionSpec == SessionInit /\ [][SessionNext]_vars

\* ================================================ one poll, end to end
\* _async_update_data with the calls of its session spelled out, on a
\* coordinator that no other call and no cleanup touches: the gate is free
\* when the poll asks for it, and the poll runs from entry to return or raise
\* without suspending.

\* self.password: a password auth accepts.
CoordinatorPassword == Chars(<<1, 2, 3, 4, 5, 6>>, "ascii")

\* temp_client = ISecClient(...); temp_client.connect();
\* temp_client.auth(self.password); status = temp_client.status(): the
\* session and the outcome of the call that raised, or of status.
PollExchange(reachable, xa, xs) ==
    LET connected == Client_connect(NewClient, reachable)
        authed == Client_auth(connected.session, CoordinatorPassword, xa)
        asked == Client_status(authed.session, xs)
    IN  IF connected.out.raised THEN connected
        ELSE IF authed.out.raised THEN authed
        ELSE asked

\* What the panel answers to the poll's auth frame: nothing usable, or a
\* response with result 0, 1 or 255; and where a status response may be cut.
PollAuthReplies == {Reply(n, 8, v) : n \in {8, 9}, v \in {0, 1, 255}}
PollSplits == {100}

\* self.stored_status refers to a snapshot object; the reference is kept as
\* the number of the response the snapshot was built from.
RECURSIVE Enumerated(_)
Enumerated(S) ==
    IF S = {} THEN <<>>
    ELSE LET x == CHOOSE y \in S : TRUE IN <<x>> \o Enumerated(S \ {x})
StatusReplySeq == Enumerated(StatusReplies)
SnapshotRef(frame) ==
    CHOOSE i \in DOMAIN StatusReplySeq : StatusReplySeq[i] = frame
Snapshot(ref) ==
    IF ref = None THEN None ELSE build_status(StatusReplySeq[ref]).status

async_update_data ==
    /\ fn = "none"
    /\ ~cleanup_in_progress
    /\ attempt < MaxAttempt
    /\ \E reachable \in BOOLEAN, xa \in Exchanges(PollAuthReplies, {}),
          xs \in Exchanges(StatusReplies, PollSplits) :
         LET r == PollExchange(reachable, xa, xs)
         IN  /\ fn' = "_async_update_data"
             /\ arg' = [before |-> [attempt |-> attempt,
                                    connection_failed |-> connection_failed],
                        skipped |-> InBackoff,
                        reachable |-> reachable, xa |-> xa, xs |-> xs]
             /\ IF InBackoff
                \* self.attempt += 1; return self.stored_status
                THEN /\ attempt' = attempt + 1
                     /\ out' = [raised |-> FALSE, tag |-> "stored",
                                status |-> Snapshot(stored_status)]
                     /\ UNCHANGED <<next_update, stored_status,
                                    connection_failed, session>>
                ELSE IF ~r.out.raised
                THEN /\ StoreSuccess(SnapshotRef(xs.reply))
                     /\ out' = [raised |-> FALSE, tag |-> "ok",
                                status |-> r.out.status]
                     /\ session' = Closed(r.session)
                ELSE /\ attempt' = attempt + 1
                     /\ connection_failed' = TRUE
                     /\ next_update' = now + BackoffSeconds(attempt + 1)
                     /\ out' = IF HasStored
                               THEN [raised |-> FALSE, tag |-> "stored",
                                     status |-> Snapshot(stored_status)]
                               ELSE [raised |-> TRUE, tag |-> r.out.tag,
                                     status |-> None]
                     /\ session' = Closed(r.session)
                     /\ UNCHANGED stored_status
    /\ UNCHANGED <<panel, cleanup_in_progress, active, lockVars, running,
                   taskVars, clVars, histVars>>

EndToEndNext == async_update_data \/ ClientReturn \/ Tick

EndToEndSpec == Init /\ [][EndToEndNext]_vars


\* ================================================================ claims
\* The coroutine holds the gate: it has entered its `async with` block and
\* not left it (an execute_command asleep between two attempts included).
InSection(t) ==
    pc[t] \in {"poll_try", "poll_store", "poll_except", "poll_finally",
               "cmd_try", "cmd_except", "cmd_sleep", "cmd_finally"}

OpenSockets == {t \in Tasks : sock[t] = "open"}

\* No call is in progress and no cleanup is running.
Quiet == running = None /\ clpc = "idle" /\ \A t \in Tasks : pc[t] = "idle"

\* The poll of task t made an attempt and it failed / succeeded; the attempt
\* is over (the except or success path has run).
PollAttemptFailed(t) ==
    op[t] = "poll" /\ pc[t] \in {"poll_finally", "done"} /\ lk[t] # NoLock
      /\ snap[t] = None
PollAttemptSucceeded(t) ==
    op[t] = "poll" /\ pc[t] \in {"poll_finally", "done"} /\ snap[t] # None

\* C1 (as claimed): whatever the interleaving of polls, commands and cleanups,
\* at most one call is inside its socket-using section and at most one
\* session socket is open.
C1_OneOperationOneSocket ==
    /\ Cardinality({t \in Tasks : InSection(t)}) <= 1
    /\ Cardinality(OpenSockets) <= 1

\* C2 (as claimed): a call starts its connect/auth/exchange only when no
\* other call holds the gate (a poll in its section, a command in its
\* section or asleep between its attempts).
C2_StartsOnlyWhenGateReleased ==
    [][\A t \in Tasks :
         (pc[t] \notin {"poll_try", "cmd_try"} /\ pc'[t] \in {"poll_try", "cmd_try"})
           => \A u \in Tasks \ {t} : ~InSection(u)]_vars

\* C3 (as claimed): an execute_command that reached the gate has requested
\* exactly one follow-up refresh when it ends, whatever its outcome.
C3_OneRefreshPerCommand ==
    \A t \in Tasks :
      (op[t] = "cmd" /\ pc[t] = "done" /\ lk[t] # NoLock) => refreshReq[t] = 1

\* C4: a poll_once called before the next-permitted-poll time creates, opens
\* and uses no session, leaves the gate and the stored snapshot alone, and
\* returns the stored snapshot.
C4_BackoffSkipsSocket ==
    [][\A t \in Tasks :
         (pc[t] = "idle" /\ op'[t] = "poll" /\ now < next_update)
           => /\ pc'[t] = "done"
              /\ flow'[t] = "return"
              /\ ret'[t] = stored_status
              /\ UNCHANGED <<stored_status, next_update, sock, active, holder,
                             waiters>>]_vars

\* C4 happens: a poll was skipped by backoff and returned a stored snapshot.
C4_Witness ==
    \E t \in Tasks :
      /\ op[t] = "poll" /\ pc[t] = "done" /\ lk[t] = NoLock
      /\ ~cleanup_in_progress
      /\ now < next_update
      /\ stored_status # None /\ ret[t] = stored_status

\* C5: once a poll attempt has succeeded, the snapshot it fetched is the
\* stored one and the one the call returns, the failure counter is 0, the
\* next-permitted-poll time is the current time and the connection-failed
\* flag is clear.
C5_SuccessResetsState ==
    \A t \in Tasks :
      PollAttemptSucceeded(t)
        => /\ stored_status = snap[t]
           /\ attempt = 0
           /\ next_update = now
           /\ ~connection_failed
           /\ flow[t] = "return"
           /\ ret[t] = snap[t]

\* C5 happens: a poll has succeeded and returned the panel's latest state.
C5_Witness ==
    \E t \in Tasks :
      /\ PollAttemptSucceeded(t) /\ pc[t] = "done"
      /\ snap[t] = MaxVersion /\ lastGood = snap[t]

\* C6 (as claimed): the k-th consecutive failed poll attempt since the last
\* success sets next-permitted-poll to now + min(2^k, 60): the first one to
\* now + 2, every later one to now + min(twice the delay before it, 60).
C6_DelayCountsFailuresOnly ==
    [][\A t \in Tasks :
         (pc[t] = "poll_except" /\ pc'[t] = "poll_finally")
           => next_update' = now + (IF lastDelay = 0 THEN 2
                                    ELSE Min(2 * lastDelay, BackoffCap))]_vars

\* C7 (as claimed): in a run of failed poll attempts with no success in
\* between, no delay is smaller than the one before it, and none exceeds 60.
C7_DelaysNonDecreasing ==
    [][\A t \in Tasks :
         (pc[t] = "poll_except" /\ pc'[t] = "poll_finally")
           => /\ next_update' - now <= BackoffCap
              /\ lastDelay # 0 => next_update' - now >= lastDelay]_vars

\* C7 (amended): in a run of failed poll attempts with no success and no
\* cleanup in between, no delay is smaller than the one before it, and none
\* exceeds 60.
C7_DelaysNonDecreasingBetweenCleanups ==
    [][\A t \in Tasks :
         (pc[t] = "poll_except" /\ pc'[t] = "poll_finally")
           => /\ next_update' - now <= BackoffCap
              /\ (lastDelay # 0 /\ ~cleanedSince)
                   => next_update' - now >= lastDelay]_vars

\* C7 happens: a failed poll attempt follows one whose delay was the cap, with
\* the counter past the point where 2^attempt exceeds the cap.
C7_Witness ==
    \E t \in Tasks :
      /\ PollAttemptFailed(t)
      /\ lastDelay = BackoffCap /\ next_update = now + BackoffCap
      /\ 2 ^ attempt > BackoffCap

\* C8 (as claimed): a failed poll raises only if no poll has ever succeeded
\* on this coordinator.
C8_RaisesOnlyBeforeFirstSuccess ==
    \A t \in Tasks :
      (PollAttemptFailed(t) /\ flow[t] = "raise") => ~everOk

\* C8 (amended): a failed poll raises exactly when no poll has succeeded
\* since the coordinator was created or last cleaned up; otherwise it
\* returns the snapshot of the most recent successful poll.
C8_RaisesOnlyWithoutSnapshot ==
    \A t \in Tasks :
      PollAttemptFailed(t)
        => IF lastGood = None
           THEN flow[t] = "raise"
           ELSE flow[t] = "return" /\ ret[t] = lastGood

\* C8 happens: after a cleanup, a failed poll returned the snapshot of a poll
\* that succeeded since.
C8_Witness ==
    \E t \in Tasks :
      /\ PollAttemptFailed(t) /\ pc[t] = "done"
      /\ flow[t] = "return" /\ ret[t] = lastGood /\ lastGood # None
      /\ cleanups > 0

\* C9 (as claimed): with nothing in progress, the connection-failed flag is
\* set exactly if the most recent poll attempt that contacted the panel
\* failed.
C9_FlagTracksLastAttempt ==
    Quiet => (connection_failed <=> lastContact = "failed")

\* C9 (amended): with nothing in progress, the connection-failed flag is set
\* exactly if the most recent poll attempt that contacted the panel since the
\* last cleanup failed (clear if there was none).
C9_FlagTracksLastAttemptSinceCleanup ==
    Quiet => (connection_failed <=> contactSinceCleanup = "failed")

\* C9 happens: nothing is in progress and the flag is set by a failed attempt
\* that followed a successful poll.
C9_Witness ==
    /\ Quiet
    /\ connection_failed
    /\ contactSinceCleanup = "failed"
    /\ everOk

\* C10 (as claimed): an execute_command whose attempts failed (it got no
\* result tag from the panel) ends by returning `failed`, with its session
\* closed.
C10_FailureReturnsFailed ==
    \A t \in Tasks :
      (op[t] = "cmd" /\ pc[t] = "done" /\ lk[t] # NoLock
         /\ ret[t] \notin {Accepted, Declined})
        => flow[t] = "return" /\ ret[t] = Failed /\ sock[t] = "none"

\* C11: a negative answer of the panel to the command is what execute_command
\* returns, from the attempt that got it: the call goes on to its end without
\* another attempt and without raising, and the failure counter, the
\* connection-failed flag and the next-permitted-poll time stay as they were.
C11_DeclinedReturnedAsIs ==
    [][\A t \in Tasks :
         answer'[t] = "declined"
           => /\ pc'[t] \in {"cmd_finally", "done"}
              /\ flow'[t] = "return"
              /\ ret'[t] = Declined
              /\ iter'[t] = iter[t]
              /\ UNCHANGED <<attempt, connection_failed, next_update>>]_vars

\* C11 happens: a command declined on its first attempt has returned, on a
\* coordinator whose polls are failing.
C11_Witness ==
    \E t \in Tasks :
      /\ op[t] = "cmd" /\ pc[t] = "done" /\ answer[t] = "declined"
      /\ iter[t] = 0 /\ ret[t] = Declined
      /\ connection_failed /\ attempt > 0 /\ now < next_update

\* C12 (as claimed): when cleanup returns, every session socket that was
\* open when it began is closed, the stored snapshot is absent, the failure
\* counter is 0, and the connection-failed flag and the cleanup-in-progress
\* marker are false.
C12_CleanupClosesAndResets ==
    [][(clpc = "main" /\ clpc' = "idle")
         => /\ \A t \in hadOpen' : sock'[t] # "open"
            /\ stored_status' = None
            /\ attempt' = 0
            /\ ~connection_failed'
            /\ ~cleanup_in_progress']_vars

\* C13 (as claimed): no step of cleanup (marking, force-closing, resetting)
\* is taken while a poll or command holds the gate, and the lock object the
\* operations contend on is never exchanged for another.
C13_CleanupTakesTheGate ==
    [][/\ (clpc' # clpc \/ job' # job) => \A t \in Tasks : ~InSection(t)
       /\ lockId' = lockId]_vars

\* A poll hands a snapshot to its caller.
PollReturnsSnapshot(t) ==
    op[t] = "poll" /\ pc[t] = "done" /\ flow[t] = "return" /\ ret[t] # None

\* C14 (as claimed): a snapshot returned by a poll is never older than one
\* returned by an earlier poll, and the stored snapshot is only ever replaced
\* by the snapshot a poll has just fetched.
C14_FreshnessMonotonic ==
    [][/\ \A t \in Tasks : PollReturnsSnapshot(t)' => ret'[t] >= lastReturned'
       /\ stored_status' # stored_status
            => \E t \in Tasks : pc[t] = "poll_store" /\ stored_status' = snap[t]]_vars

\* C14 (amended): a snapshot returned by a poll is never older than one
\* returned by an earlier poll, and the stored snapshot is only ever replaced
\* by the snapshot a poll has just fetched or discarded by the end of a
\* cleanup.
C14_FreshnessMonotonicUntilCleanup ==
    [][/\ \A t \in Tasks : PollReturnsSnapshot(t)' => ret'[t] >= lastReturned'
       /\ stored_status' # stored_status
            => \/ \E t \in Tasks : pc[t] = "poll_store" /\ stored_status' = snap[t]
               \/ clpc = "main" /\ clpc' = "idle" /\ stored_status' = None]_vars

\* C14 happens: after a cleanup, a poll returns a snapshot newer than the
\* newest one returned before.
C14_Witness ==
    \E t \in Tasks :
      /\ PollReturnsSnapshot(t)
      /\ lastReturned # None /\ ret[t] > lastReturned
      /\ cleanups > 0

\* ---- claims about the client module (CodecSpec)
AuthDone        == fn = "auth" /\ out.tag # "pending"
ChecksumDone    == fn = "calculate_checksum" /\ out.tag # "pending"
BuildStatusDone == fn = "build_status" /\ out.tag # "pending"

SixAsciiDigits(password) ==
    Len(password) = 6 /\ \A k \in 1 .. Len(password) : password[k] = "ascii"

\* C15 (as claimed): auth answers every password that is not six ASCII
\* digits with an error, and sends nothing.
C15_RejectsBadPasswords ==
    (AuthDone /\ ~SixAsciiDigits(arg.password))
      => out.tag \in {"CommunicationError", "ValueError"}

\* C16: the checksum of a buffer of bytes is a byte, and the XOR of the
\* buffer's bytes and the checksum is 0xFF.
C16_ChecksumXorsToFF ==
    ChecksumDone
      => /\ out.checksum \in 0 .. 255
         /\ XorAll(Append(arg, out.checksum)) = 255

\* C16 happens: the checksum of a buffer of the greatest length, of bytes
\* that do not cancel each other.
C16_Witness ==
    /\ ChecksumDone
    /\ Len(arg) = MaxBufLen
    /\ arg[1] = 170 /\ arg[2] = 1
    /\ out.checksum \notin {0, 255}

\* The payload bytes build_status gets out of a response: the bytes after
\* the header, as far as the length field says and the response goes.
ReceivedPayload(r) ==
    IF r.total <= HeaderLength THEN 0
    ELSE Min(IF r.declared > 2 THEN r.declared - 2 ELSE 0, r.total - HeaderLength)

\* C17: build_status fails for every response whose payload is not 143
\* bytes long (a response without a complete header included), and what it
\* returns otherwise is a whole snapshot: 61 zones and 5 partitions.
C17_OnlyFullPayloadDecodes ==
    BuildStatusDone
      => /\ ReceivedPayload(arg) # PayloadLength
              => out.tag \in {"ValueError", "IndexError"}
         /\ out.tag = "ok"
              => /\ DOMAIN out.status.zones = 1 .. ZoneCount
                 /\ DOMAIN out.status.partitions = 1 .. PartitionCount
         /\ out.tag \in {"ok", "ValueError", "IndexError"}

\* C17 happens: a payload one byte too long has been refused.
C17_Witness ==
    /\ BuildStatusDone
    /\ ReceivedPayload(arg) = PayloadLength + 1
    /\ out.tag = "ValueError"

\* The length field of a response agrees with the bytes that follow the
\* header: the declared payload, with or without the checksum byte after it.
LengthConsistent(r) ==
    r.total - HeaderLength \in {r.declared - 2, r.declared - 2 + 1}

\* C18 (as claimed): build_status fails for every response whose length
\* field does not agree with the payload bytes present in it.
C18_InconsistentLengthFails ==
    (BuildStatusDone /\ ~LengthConsistent(arg)) => out.tag # "ok"

\* Byte k of the payload of a response, bit j of it, and the octet and bit
\* of zone n in a bitmap.
PayloadByte(r, k) == r.data[HeaderLength + k + 1]
ZoneBit(r, first, n) == BitSet(PayloadByte(r, first + (n - 1) \div 8), (n - 1) % 8)

\* C19 (as claimed): for every zone 1..61 the flags open, violated, tamper,
\* lowBattery and anulated are the zone's bits in the bitmaps at bytes 38, 46,
\* 89, 105 and 54.
C19_ZoneFlagsFollowBitmaps ==
    (BuildStatusDone /\ out.tag = "ok")
      => \A n \in 1 .. ZoneCount :
           /\ out.status.zones[n].open = ZoneBit(arg, 38, n)
           /\ out.status.zones[n].violated = ZoneBit(arg, 46, n)
           /\ out.status.zones[n].tamper = ZoneBit(arg, 89, n)
           /\ out.status.zones[n].lowBattery = ZoneBit(arg, 105, n)
           /\ out.status.zones[n].anulated = ZoneBit(arg, 54, n)

\* The zones a bitmap of seven octets covers.
SevenOctetZones == 1 .. 56

\* C19 (amended): for the zones 1..56 the flags open, violated, tamper and
\* lowBattery are the zone's bits in the seven-octet bitmaps at bytes 38, 46,
\* 89 and 105, and for the zones 57..61 they are false; anulated is the
\* zone's bit in the eight-octet bitmap at byte 54 for every zone 1..61.
C19_ZoneFlagsFollowCoveredBitmaps ==
    (BuildStatusDone /\ out.tag = "ok")
      => \A n \in 1 .. ZoneCount :
           /\ out.status.zones[n].anulated = ZoneBit(arg, 54, n)
           /\ IF n \in SevenOctetZones
              THEN /\ out.status.zones[n].open = ZoneBit(arg, 38, n)
                   /\ out.status.zones[n].violated = ZoneBit(arg, 46, n)
                   /\ out.status.zones[n].tamper = ZoneBit(arg, 89, n)
                   /\ out.status.zones[n].lowBattery = ZoneBit(arg, 105, n)
              ELSE /\ ~out.status.zones[n].open
                   /\ ~out.status.zones[n].violated
                   /\ ~out.status.zones[n].tamper
                   /\ ~out.status.zones[n].lowBattery

\* C19 happens: a payload with every bit set but those of byte 38, of which
\* only bit 0 is set, is decoded: zone 1 is open and zone 8 is not, zone 56 is
\* open, zone 57 is not, and zone 61 is bypassed.
C19_Witness ==
    /\ BuildStatusDone /\ out.tag = "ok"
    /\ PayloadByte(arg, 38) = 1 /\ PayloadByte(arg, 45) = 255
    /\ out.status.zones[1].open /\ ~out.status.zones[8].open
    /\ out.status.zones[56].open /\ ~out.status.zones[57].open
    /\ out.status.zones[61].anulated

\* C20: the snapshot holds exactly the zones 1..61; enabled is the zone's
\* bit in the bitmap at byte 12 for the zones 1..56 and false for the zones
\* 57..61, whatever the payload.
C20_EnabledCoversFirst56 ==
    (BuildStatusDone /\ out.tag = "ok")
      => /\ DOMAIN out.status.zones = 1 .. ZoneCount
         /\ \A n \in 1 .. ZoneCount :
              out.status.zones[n].enabled
                = (n \in SevenOctetZones /\ ZoneBit(arg, 12, n))

\* C20 happens: in a payload with every bit set, zone 56 is enabled and the
\* zones 57..61 are not.
C20_Witness ==
    /\ BuildStatusDone /\ out.tag = "ok"
    /\ \A k \in 12 .. 19 : PayloadByte(arg, k) = 255
    /\ out.status.zones[56].enabled
    /\ \A n \in 57 .. ZoneCount : ~out.status.zones[n].enabled

\* C21: a decoded snapshot holds exactly the partitions 1..5, and the record
\* of partition p is read off payload byte 21 + p alone: enabled is bit 7
\* (0x80), armed bit 0 (0x01), firing bit 2 (0x04), fired bit 3 (0x08) and
\* stay bit 6 (0x40), whatever the other bytes of the payload are.
C21_PartitionFromItsByte ==
    (BuildStatusDone /\ out.tag = "ok")
      => /\ DOMAIN out.status.partitions = 1 .. 5
         /\ \A p \in 1 .. 5 :
              out.status.partitions[p]
                = [number  |-> p,
                   enabled |-> PayloadByte(arg, 21 + p) \div 128 = 1,
                   armed   |-> PayloadByte(arg, 21 + p) % 2 = 1,
                   firing  |-> (PayloadByte(arg, 21 + p) \div 4) % 2 = 1,
                   fired   |-> (PayloadByte(arg, 21 + p) \div 8) % 2 = 1,
                   stay    |-> (PayloadByte(arg, 21 + p) \div 64) % 2 = 1]

\* C21 happens: a payload with every bit set but those of byte 23, of which
\* only 0x40 is set, is decoded: partition 2 is in stay mode and neither
\* enabled nor armed, and its neighbours are enabled and armed.
C21_Witness ==
    /\ BuildStatusDone /\ out.tag = "ok"
    /\ PayloadByte(arg, 23) = 64 /\ PayloadByte(arg, 22) = 255
    /\ out.status.partitions[2].stay
    /\ ~out.status.partitions[2].enabled /\ ~out.status.partitions[2].armed
    /\ out.status.partitions[1].enabled /\ out.status.partitions[3].armed

\* C22: the overall status is decided by bits 5-6 of payload byte 20 (00
\* disarmed, 01 partial_armed, 11 armed_away, 10 unknown), and siren,
\* zonesClosed and zonesFiring are bits 1, 2 and 3 of that byte.
C22_StatusFromByte20 ==
    (BuildStatusDone /\ out.tag = "ok")
      => LET b == PayloadByte(arg, 20)
             bits == <<(b \div 32) % 2, (b \div 64) % 2>>
         IN  /\ out.status.status
                  = (CASE bits = <<0, 0>> -> "disarmed"
                       [] bits = <<1, 0>> -> "partial_armed"
                       [] bits = <<1, 1>> -> "armed_away"
                       [] bits = <<0, 1>> -> "unknown")
             /\ out.status.siren = ((b \div 2) % 2 = 1)
             /\ out.status.zonesClosed = ((b \div 4) % 2 = 1)
             /\ out.status.zonesFiring = ((b \div 8) % 2 = 1)

\* C22 happens: a status byte of 0x4A (bits 6, 3 and 1) is decoded: the
\* status is unknown, the siren is on, zones are firing and not closed.
C22_Witness ==
    /\ BuildStatusDone /\ out.tag = "ok"
    /\ PayloadByte(arg, 20) = 74
    /\ out.status.status = "unknown"
    /\ out.status.siren /\ out.status.zonesFiring /\ ~out.status.zonesClosed

\* ---- claims about the session (SessionSpec)
\* The bytes the call got from its one recv, and whether it got any.
Received == SubSeq(arg.x.reply, 1, arg.x.first)
Answered == out.sent # <<>> /\ arg.x.fault = "none"
Requests == {"status", "arm_system", "disarm_system", "panic"}

\* C23: when auth has sent its frame and received an answer, the result
\* byte (offset 8) decides: 0 marks the session authenticated and auth
\* returns True; 1, 2, 3 and 4 raise AuthError, each with its own reason,
\* and leave the socket open; any other value, and an answer shorter than 9
\* bytes, raises CommunicationError, which is not an AuthError.
C23_AuthResultDecides ==
    (fn = "auth" /\ Answered)
      => LET result == IF Len(Received) < 9 THEN 0 - 1 ELSE Received[9]
         IN  CASE result = 0 ->
                    /\ ~out.raised /\ out.tag = "True"
                    /\ session.authenticated
                    /\ session.client = arg.before.client
               [] result \in 1 .. 4 ->
                    /\ out.raised /\ out.tag = "AuthError"
                    /\ out.message
                         = <<"Invalid password", "Incorrect software version",
                             "Alarm panel will call back",
                             "Waiting for user permission">>[result]
                    /\ session.client = arg.before.client
                    /\ session.client # None
               [] OTHER ->
                    /\ out.raised /\ out.tag = "CommunicationError"
                    /\ out.tag # "AuthError"

\* C23 happens: a connected session sends its password and the panel
\* answers with result 4: AuthError, and the socket stays open.
C23_Witness ==
    /\ fn = "auth" /\ Answered
    /\ Len(Received) = 10 /\ Received[9] = 4
    /\ out.tag = "AuthError" /\ out.message = "Waiting for user permission"
    /\ session.client # None /\ ~session.authenticated

\* C24 (as claimed): status, arm_system, disarm_system and panic on a
\* session without a socket, or with a socket and not authenticated, send
\* nothing and raise the error of the missing prerequisite.
C24_RequestsNeedAuthentication ==
    (fn \in Requests /\ (arg.before.client = None \/ ~arg.before.authenticated))
      => out = NotConnected

\* C25 (as claimed): connect on a session that has a socket drops that
\* socket, however recently it was used: afterwards the session has another
\* socket or none, and is not authenticated.
C25_ConnectReplacesSocket ==
    (fn = "connect" /\ arg.before.client # None)
      => session.client # arg.before.client /\ ~session.authenticated

\* C26 (as claimed): when the panel's answer to status is a complete valid
\* response, status returns the snapshot decoded from it, in however many
\* pieces the stream delivers it.
C26_StatusReadsWholeResponse ==
    (fn = "status" /\ Answered /\ build_status(arg.x.reply).tag = "ok")
      => /\ ~out.raised
         /\ out.tag = "ok"
         /\ out.status = build_status(arg.x.reply).status

\* C27 (as claimed): close never raises, whether the socket's shutdown and
\* close succeed or fail; it leaves the session without a socket and not
\* authenticated; on a session without a socket it changes nothing.
C27_CloseAlwaysDisconnects ==
    (fn = "close")
      => /\ ~out.raised
         /\ session.client = None /\ ~session.authenticated
         /\ arg.before.client = None => session = arg.before

\* C28: when arm_system (disarm_system, panic) has received an answer, it
\* returns "armed" ("disarmed") exactly when the answer has more than 8
\* bytes and byte 8 is 0x91, "triggered" exactly when the answer has more
\* than 7 bytes and byte 7 is 0xFE, and otherwise the negative tag; it does
\* not raise, however short the answer.
C28_AnswerDecidesResult ==
    (fn \in {"arm_system", "disarm_system", "panic"} /\ Answered)
      => LET ack8 == Len(Received) > 8 /\ Received[9] = 145
             ack7 == Len(Received) > 7 /\ Received[8] = 254
         IN  /\ ~out.raised
             /\ fn = "arm_system"
                  => out.tag = IF ack8 THEN "armed" ELSE "not_armed"
             /\ fn = "disarm_system"
                  => out.tag = IF ack8 THEN "disarmed" ELSE "not_disarmed"
             /\ fn = "panic"
                  => out.tag = IF ack7 THEN "triggered" ELSE "not_triggered"

\* C28 happens: panic receives an answer of 8 bytes, the last of them 0xFE,
\* and returns "triggered".
C28_Witness ==
    /\ fn = "panic" /\ Answered
    /\ Len(Received) = 8 /\ Received[8] = 254
    /\ out.tag = "triggered"

\* C29: in the frame arm_system and disarm_system send, byte 8 is 0xFF for
\* partition 0 and the partition's number for the partitions 1..5, and byte
\* 9 is 0x01 for arm_system and 0x00 for disarm_system.
C29_PartitionAndActionBytes ==
    (fn \in {"arm_system", "disarm_system"} /\ out.sent # <<>>)
      => /\ arg.partition = 0 => out.sent[9] = 255
         /\ arg.partition \in 1 .. 5 => out.sent[9] = arg.partition
         /\ out.sent[10] = (IF fn = "arm_system" THEN 1 ELSE 0)

\* C29 happens: disarm_system of all partitions sends 0xFF 0x00.
C29_Witness ==
    /\ fn = "disarm_system" /\ arg.partition = 0
    /\ Len(out.sent) = 11 /\ out.sent[9] = 255 /\ out.sent[10] = 0

\* A call failed with a transport or protocol error: the connection could
\* not be made, a socket call raised, or the answer was short, malformed,
\* of the wrong payload length or of an unknown result.
TransportOrProtocolError ==
    /\ out.raised
    /\ \/ out.message \in {"Failed to connect", "Socket error",
                            "Invalid authentication response",
                            "Unknown payload response for authentication"}
       \/ fn = "status" /\ out.tag \in {"ValueError", "IndexError"}

\* C30 (as claimed): when connect, auth, status, arm_system, disarm_system
\* or panic fails with a transport or protocol error, the session has no
\* socket.
C30_FailureDisconnects ==
    (fn \in Requests \cup {"connect", "auth"} /\ TransportOrProtocolError)
      => session.client = None

\* C33 (as claimed): every frame a call hands to the socket starts with
\* 00 00 8F FF, has in bytes 4-5 the number 2 plus the number of bytes
\* between the two command bytes and the checksum, and ends with the
\* checksum of all the bytes before it.
C33_FramesWellFormed ==
    (fn # "none" /\ out.sent # <<>>)
      => LET frame == out.sent
             n == Len(frame)
         IN  /\ n >= 9
             /\ SubSeq(frame, 1, 4) = <<0, 0, 143, 255>>
             /\ frame[5] * 256 + frame[6] = 2 + (n - 9)
             /\ frame[n] = calculate_checksum(SubSeq(frame, 1, n - 1))

\* C36 (as claimed): whatever has been done to the session, the forced
\* close of the coordinator included, it is authenticated only if it has a
\* socket.
C36_AuthenticatedHasSocket ==
    session.authenticated => session.client # None

\* C37 (as claimed): when auth has raised, for whatever reason, the session
\* is not authenticated.
C37_FailedAuthNotAuthenticated ==
    (fn = "auth" /\ out.raised) => ~session.authenticated

\* ---- further claims about the coordinator (Spec)
\* C31 (as claimed): once the panel has answered an auth frame with a result
\* 1..4, no attempt of a command or of a poll gets the panel to answer
\* another auth frame (the password is the coordinator's one password).
C31_NoAuthAfterAuthError == authHist # "resent"

\* The call holds the coordinator's gate: it is the holder of the lock that
\* self._connection_lock currently names.
HoldsGate(t) == holder[lockId] = t

\* C34 (as claimed): a poll or command that has finished has its session
\* closed and out of the set of active connections, and whenever no call
\* holds the gate no session socket is open.
C34_NoSocketLeak ==
    /\ \A t \in Tasks : pc[t] = "done" => sock[t] # "open" /\ t \notin active
    /\ (\A t \in Tasks : ~HoldsGate(t)) => OpenSockets = {}

\* C38 (as claimed): an execute_command makes at most max_retries = 2
\* attempts; it starts a further attempt only after one that raised and got
\* no result, with the session of that attempt closed and dropped; and from
\* its first attempt to its last it holds the gate.
C38_RetryDiscipline ==
    \A t \in Tasks :
      op[t] = "cmd"
        => /\ iter[t] < 2
           /\ (pc[t] = "cmd_try" /\ iter[t] > 0)
                => flow[t] = "continue" /\ answer[t] = "none"
           /\ pc[t] = "cmd_try" => sock[t] = "none" /\ t \notin active
           /\ InSection(t) => HoldsGate(t)

\* ---- the poll end to end (EndToEndSpec)
\* A status response with a payload of 143 zero bytes.
ZeroFrame ==
    Response(HeaderLength + PayloadLength + 1, PayloadLength + 2,
             [k \in 0 .. PayloadLength |-> 0]).data

\* The poll reached the panel, which accepted the connection, answered the
\* auth frame with result 0 and the status frame with ZeroFrame in one piece.
ScenarioA ==
    /\ fn = "_async_update_data" /\ ~arg.skipped
    /\ arg.reachable
    /\ arg.xa.fault = "none" /\ Len(arg.xa.reply) >= 9 /\ arg.xa.reply[9] = 0
    /\ arg.xs.fault = "none" /\ arg.xs.reply = ZeroFrame
    /\ arg.xs.first = Len(ZeroFrame)

\* C32: a poll against a panel that accepts the connection, answers the
\* authentication with result 0 and the status request with a valid frame
\* of 143 zero bytes returns a snapshot with status disarmed, no zone open
\* or violated and no partition armed, and leaves the failure counter at 0
\* and the connection-failed flag false.
C32_ScenarioA ==
    ScenarioA
      => /\ ~out.raised /\ out.tag = "ok"
         /\ out.status.status = "disarmed"
         /\ \A n \in 1 .. 61 :
              ~out.status.zones[n].open /\ ~out.status.zones[n].violated
         /\ \A p \in 1 .. 5 : ~out.status.partitions[p].armed
         /\ attempt = 0
         /\ ~connection_failed
         /\ HasStored /\ Snapshot(stored_status) = out.status

\* C32 happens: after failed polls, a poll meets that panel and returns
\* the snapshot.
C32_Witness ==
    /\ ScenarioA
    /\ arg.before.attempt > 0 /\ arg.before.connection_failed
    /\ out.tag = "ok" /\ out.status.status = "disarmed"
    /\ attempt = 0 /\ ~connection_failed

\* ---- progress (FairSpec)
\* The call of task t is suspended in the queue of a gate.
Waiting(t) == pc[t] \in {"poll_wait", "cmd_wait"}

\* Task t holds a gate, the current one or one a cleanup has replaced.
HoldsAGate(t) == \E l \in Locks : holder[l] = t

\* C35: under fair scheduling every call that has entered the gate
\* eventually completes with the gate released, and every call waiting for
\* the gate eventually enters it, also behind a command that retries.
C35_CallsComplete ==
    \A t \in Tasks :
      /\ InSection(t) ~> (pc[t] = "done" /\ ~HoldsAGate(t))
      /\ Waiting(t) ~> InSection(t)

\* C35 happens: a command that went through a retry has completed, and its
\* release has handed the gate to a call that waited behind it.
C35_Witness ==
    \E t, u \in Tasks :
      /\ op[t] = "cmd" /\ iter[t] = 1 /\ pc[t] = "done" /\ ~HoldsAGate(t)
      /\ Waiting(u) /\ holder[lk[u]] = u

====
